---- MODULE Spec2Model ----
(***************************************************************************)
(* Model of the TTL cache (services/cache.ts) and of the process shutdown  *)
(* path (index.ts) of the SEO Intelligence MCP server.                     *)
(*                                                                         *)
(* JavaScript runs callbacks one at a time, so every synchronous method of *)
(* Cache is one atomic action.  getOrSet is async: a first step runs up to *)
(* `await factory()`, a second step runs when the factory's promise        *)
(* settles.  Time is Date.now() in milliseconds.                           *)
(***************************************************************************)
EXTENDS Integers, Sequences, FiniteSets, Bags, TLC

(* ----------------------------- bounds ---------------------------------- *)

\* Largest clock value (ms since construction) the model explores.
MaxNow == 600000

\* Largest clock value explored while getOrSet calls are outstanding.
MaxFlightNow == 300000

\* Number of getOrSet calls that may be suspended at the same time.
MaxCallers == 2

\* Largest number of parts handed to generateKey.
MaxParts == 3

\* Most known URLs handed to findMatch.
MaxUrls == 3

(* --------------------------- input domains ----------------------------- *)

\* Cache keys, as sequences of characters (generateKey joins parts with ':').
K1 == <<"s", ":", "a">>
K2 == <<"a", ":", "s">>
Keys == {K1, K2}

\* JavaScript null: the value get() returns for "absent".
Null == "null"

\* Payloads callers store; the type parameter T admits null.
Values == {"v1", Null}

\* Rejection reasons of a failing factory.
Errors == {"boom"}

\* An optional argument is <<>> (not supplied / undefined) or <<x>>.
None == <<>>
Some(x) == <<x>>

\* ttl arguments (seconds) callers pass to set / getOrSet.
TTLArgs == {None, Some(0), Some(300)}

\* Values of config.cacheTTL (CACHE_TTL, seconds) and of the constructor's
\* optional defaultTTL argument.
ConfigTTLs == {0, 150}
CtorArgs == {None, Some(0), Some(150)}

\* Amounts (ms) by which the clock advances between two callbacks.
TickSteps == {150000}

\* Patterns handed to deletePattern: a literal, optionally anchored with ^
\* at its start and $ at its end ("^s", "s", "s$", "^s:a$", "a:s", "x").
Pat(st, lit, en) == [start |-> st, lit |-> lit, end |-> en]
Patterns == { Pat(TRUE, <<"s">>, FALSE), Pat(FALSE, <<"s">>, FALSE),
              Pat(FALSE, <<"s">>, TRUE), Pat(TRUE, K1, TRUE),
              Pat(FALSE, K2, FALSE), Pat(FALSE, <<"x">>, FALSE) }

\* Signals with a registered shutdown handler.
Signals == {"SIGINT", "SIGTERM"}

(* ------------------------------ state ---------------------------------- *)

VARIABLES
    store,       \* Cache.store: key -> [value, expiresAt], a partial function
    defaultTTL,  \* Cache.defaultTTL (seconds)
    now,         \* Date.now()
    nextSweep,   \* time at which the setInterval timer is next due
    sweepTimer,  \* "armed" | "cancelled": state of the setInterval timer
    pending,     \* bag of getOrSet calls suspended at `await factory()`
    written,     \* per key: arguments and time of the set that wrote the
                 \* entry now in the store (None when there is no entry)
    last,        \* the latest synchronous Cache operation, its result and the
                 \* number of entries it removed
    phase,       \* "running" | "closing" | "exited": process lifecycle
    pcall,       \* the latest call of a stateless helper (URLResolver.resolve,
                 \* URLResolver.findMatch, Cache.generateKey): arguments, result
    raced        \* keys on which set, delete, deletePattern or clear ran while
                 \* a getOrSet call on the key was suspended; a key stays
                 \* until the step after its last suspended call settles

vars == <<store, defaultTTL, now, nextSweep, sweepTimer, pending, written, last, phase, pcall, raced>>

(* --------------------------- pure helpers ------------------------------ *)

\* JavaScript truthiness of an optional number: undefined and 0 are falsy.
Truthy(opt) == opt /= None /\ opt[1] /= 0

\* 5 * 60 * 1000: period of the cleanup timer.
SweepInterval == 5 * 60 * 1000

\* ttlSeconds * 1000
MsPerSecond == 1000

\* this.store.delete(key), for a set of keys, on a store value.
Without(s, ks) == [x \in (DOMAIN s) \ ks |-> s[x]]

\* this.store.set(key, entry) on a store value.
With(s, k, e) == [x \in (DOMAIN s) \cup {k} |-> IF x = k THEN e ELSE s[x]]

\* The bookkeeping of `written` that goes with a store value.
Keep(w, s) == [k \in Keys |-> IF k \in DOMAIN s THEN w[k] ELSE None]

\* Cache.get with the entry treated as expired from expiresAt on.
GetRetEager(s, k, t) ==
    IF k \notin DOMAIN s THEN Null
    ELSE IF t >= s[k].expiresAt THEN Null
    ELSE s[k].value

\* Cache.get without the expiry check.
GetRetStale(s, k, t) ==
    IF k \notin DOMAIN s THEN Null ELSE s[k].value

\* Cache.get: the value returned.
GetRet(s, k, t) ==
    IF k \notin DOMAIN s THEN Null
    ELSE IF t > s[k].expiresAt THEN Null
    ELSE s[k].value

\* Cache.get: the store after the call (lazy eviction).
GetStore(s, k, t) ==
    IF k \in DOMAIN s /\ t > s[k].expiresAt THEN Without(s, {k}) ELSE s

\* Cache.set: ttl || this.defaultTTL
SetTTL(ttl) == IF Truthy(ttl) THEN ttl[1] ELSE defaultTTL

\* Cache.set with the seconds-to-milliseconds conversion left out.
SetStoreSeconds(s, k, v, ttl, t) ==
    With(s, k, [value |-> v, expiresAt |-> t + SetTTL(ttl)])

\* Cache.set: the store after the call.
SetStore(s, k, v, ttl, t) ==
    With(s, k, [value |-> v, expiresAt |-> t + SetTTL(ttl) * MsPerSecond])

\* Cache.has: the value returned.
HasRet(s, k, t) ==
    IF k \notin DOMAIN s THEN FALSE
    ELSE IF t > s[k].expiresAt THEN FALSE
    ELSE TRUE

\* Cache.has without the eviction.
HasStoreNoEvict(s, k, t) == s

\* Cache.has: the store after the call.
HasStore(s, k, t) ==
    IF k \in DOMAIN s /\ t > s[k].expiresAt THEN Without(s, {k}) ELSE s

\* A test that ignores the anchors of the pattern.
RegexTestUnanchored(p, key) ==
    \E i \in 0..(Len(key) - Len(p.lit)) : SubSeq(key, i + 1, i + Len(p.lit)) = p.lit

\* new RegExp(pattern).test(key): the literal occurs in key at an offset the
\* anchors allow (no flags, so the search is stateless).
RegexTest(p, key) ==
    \E i \in 0..(Len(key) - Len(p.lit)) :
        /\ SubSeq(key, i + 1, i + Len(p.lit)) = p.lit
        /\ p.start => i = 0
        /\ p.end => i + Len(p.lit) = Len(key)

\* Cache.deletePattern: the keys the loop deletes.
PatternKeys(s, p) == {k \in DOMAIN s : RegexTest(p, k)}

\* A sweep that deletes every key.
ExpiredKeysAll(s, t) == DOMAIN s

\* Cache.cleanup: the keys the loop deletes.
ExpiredKeys(s, t) == {k \in DOMAIN s : t > s[k].expiresAt}

\* A suspended getOrSet call: the arguments its continuation still needs.
Call(k, ttl) == [key |-> k, ttl |-> ttl]
Calls == {Call(k, ttl) : k \in Keys, ttl \in TTLArgs}

\* Number of factories outstanding for key k.
InFlight(k) == BagCardinality([c \in {x \in BagToSet(pending) : x.key = k} |-> pending[c]])

Running == phase /= "exited"

\* The raced keys that still have a suspended call.
Racing == {k \in raced : InFlight(k) > 0}

Op(op, key, ret, removed) == [op |-> op, key |-> key, ret |-> ret, removed |-> removed]

(* ------------------------------ strings -------------------------------- *)

\* A JavaScript string is the sequence of its characters.

\* Array.prototype.join on a sequence of strings.
RECURSIVE Join(_, _)
Join(strs, sep) ==
    IF strs = << >> THEN << >>
    ELSE IF Len(strs) = 1 THEN strs[1]
    ELSE strs[1] \o sep \o Join(Tail(strs), sep)

\* The decimal digits.
Digit(d) == <<"0", "1", "2", "3", "4", "5", "6", "7", "8", "9">>[d + 1]

\* String(n) for a natural number n.
RECURSIVE NumToStr(_)
NumToStr(n) == IF n < 10 THEN <<Digit(n)>> ELSE NumToStr(n \div 10) \o <<Digit(n % 10)>>

(* ---------------------------- generateKey ------------------------------ *)

\* A part handed to generateKey: a string, a number, or undefined.
Str(chars) == [t |-> "str", s |-> chars]
Num(n) == [t |-> "num", n |-> n]
Undef == [t |-> "undef"]

\* Parts callers pass: "a", "b", "", 0, 7, 12 and undefined.
PartValues == {Str(<<"a">>), Str(<<"b">>), Str(<< >>), Num(0), Num(7), Num(12), Undef}

\* Argument lists of generateKey.
PartLists == UNION {[1..n -> PartValues] : n \in 0..MaxParts}

\* Boolean(part): undefined, "" and 0 are falsy.
Boolean(part) ==
    CASE part.t = "str" -> part.s /= << >>
      [] part.t = "num" -> part.n /= 0
      [] OTHER -> FALSE

\* String(part), as join applies it to a string or a number.
PartToStr(part) == IF part.t = "num" THEN NumToStr(part.n) ELSE part.s

\* Array.prototype.filter(Boolean) followed by the conversion join applies.
RECURSIVE FilterParts(_)
FilterParts(parts) ==
    IF parts = << >> THEN << >>
    ELSE IF Boolean(Head(parts))
         THEN <<PartToStr(Head(parts))>> \o FilterParts(Tail(parts))
         ELSE FilterParts(Tail(parts))

\* Cache.generateKey: parts.filter(Boolean).join(':')
GenerateKey(parts) == Join(FilterParts(parts), <<":">>)

(* ----------------------------- URLResolver ----------------------------- *)

\* The characters of t stand in s from index i on.
SubAt(s, i, t) ==
    /\ i >= 1
    /\ i + Len(t) - 1 <= Len(s)
    /\ \A j \in 1..Len(t) : s[i + j - 1] = t[j]

\* String.prototype.includes
Includes(s, t) == \E i \in 1..(Len(s) + 1) : SubAt(s, i, t)

\* String.prototype.endsWith
EndsWith(s, t) == SubAt(s, Len(s) - Len(t) + 1, t)

\* The least member of a non-empty set of integers.
Least(S) == CHOOSE x \in S : \A y \in S : x <= y

\* replace of a one-character pattern without the g flag: the first
\* occurrence only.
RECURSIVE ReplaceCharOnce(_, _, _)
ReplaceCharOnce(s, c, r) ==
    IF s = << >> THEN << >>
    ELSE IF Head(s) = c THEN r \o Tail(s)
    ELSE <<Head(s)>> \o ReplaceCharOnce(Tail(s), c, r)

\* s.replace(/c/g, r) for a one-character pattern c.
RECURSIVE ReplaceChar(_, _, _)
ReplaceChar(s, c, r) ==
    IF s = << >> THEN << >>
    ELSE (IF Head(s) = c THEN r ELSE <<Head(s)>>) \o ReplaceChar(Tail(s), c, r)

\* Index of the first "]" of s at or after i, 0 when there is none: where the
\* greedy [^\]]+ of the bracket patterns stops.
RECURSIVE CloseAt(_, _)
CloseAt(s, i) ==
    IF i > Len(s) THEN 0
    ELSE IF s[i] = "]" THEN i
    ELSE CloseAt(s, i + 1)

\* s.replace(/\[([^\]]+)\]/g, ':$1') scanning from index i.
RECURSIVE ReplaceDynamicFrom(_, _)
ReplaceDynamicFrom(s, i) ==
    IF i > Len(s) THEN << >>
    ELSE IF s[i] = "[" /\ CloseAt(s, i + 1) > i + 1
         THEN <<":">> \o SubSeq(s, i + 1, CloseAt(s, i + 1) - 1)
                      \o ReplaceDynamicFrom(s, CloseAt(s, i + 1) + 1)
         ELSE <<s[i]>> \o ReplaceDynamicFrom(s, i + 1)

\* The capture with the single-bracket replace left out.
ReplaceDynamicNone(s) == s

\* s.replace(/\[([^\]]+)\]/g, ':$1')
ReplaceDynamic(s) == ReplaceDynamicFrom(s, 1)

\* s.replace(/\[\.\.\.([^\]]+)\]/g, '*') scanning from index i.
RECURSIVE ReplaceCatchAllFrom(_, _)
ReplaceCatchAllFrom(s, i) ==
    IF i > Len(s) THEN << >>
    ELSE IF SubAt(s, i, <<"[", ".", ".", ".">>) /\ CloseAt(s, i + 4) > i + 4
         THEN <<"*">> \o ReplaceCatchAllFrom(s, CloseAt(s, i + 4) + 1)
         ELSE <<s[i]>> \o ReplaceCatchAllFrom(s, i + 1)

\* s.replace(/\[\.\.\.([^\]]+)\]/g, '*')
ReplaceCatchAll(s) == ReplaceCatchAllFrom(s, 1)

\* s.replace(/\/index$/, '')
StripIndex(s) ==
    IF EndsWith(s, <<"/", "i", "n", "d", "e", "x">>) THEN SubSeq(s, 1, Len(s) - Len(<<"/", "i", "n", "d", "e", "x">>)) ELSE s

\* path || '/'
OrSlash(path) == IF path = << >> THEN <<"/">> ELSE path

\* filePath.match(/<lead>(.+?)<tail>$/), tail one of the alternatives `tails`:
\* the capture of the leftmost match, the shortest one from that start, or
\* None. (The paths hold no line terminator, so "." matches every character.)
LazyCapture(s, lead, tails) ==
    LET ok(i, n) ==
            /\ SubAt(s, i, lead)
            /\ \E t \in tails :
                  /\ i + Len(lead) + n + Len(t) - 1 = Len(s)
                  /\ EndsWith(s, t)
        starts == {i \in 1..Len(s) : \E n \in 1..Len(s) : ok(i, n)}
    IN  IF starts = {} THEN None
        ELSE LET i == Least(starts)
                 n == Least({m \in 1..Len(s) : ok(i, m)})
             IN  Some(SubSeq(s, i + Len(lead), i + Len(lead) + n - 1))

\* (tsx?|jsx?)
ScriptExts == {<<"t", "s">>, <<"t", "s", "x">>, <<"j", "s">>, <<"j", "s", "x">>}

\* \/(page|layout|route)\.(tsx?|jsx?)
AppTails ==
    {<<"/">> \o w \o <<".">> \o e : w \in {<<"p", "a", "g", "e">>, <<"l", "a", "y", "o", "u", "t">>, <<"r", "o", "u", "t", "e">>}, e \in ScriptExts}

\* \.(tsx?|jsx?)
ScriptTails == {<<".">> \o e : e \in ScriptExts}

\* \.astro
AstroTails == {<<".", "a", "s", "t", "r", "o">>}

\* \.(html?|php|md)
GenericTails == {<<".", "h", "t", "m", "l">>, <<".", "h", "t", "m">>, <<".", "p", "h", "p">>, <<".", "m", "d">>}

\* The letters, in both cases, and the digits.
LowerLetters == <<"a", "b", "c", "d", "e", "f", "g", "h", "i", "j", "k", "l", "m", "n", "o", "p", "q", "r", "s", "t", "u", "v", "w", "x", "y", "z">>
UpperLetters == <<"A", "B", "C", "D", "E", "F", "G", "H", "I", "J", "K", "L", "M", "N", "O", "P", "Q", "R", "S", "T", "U", "V", "W", "X", "Y", "Z">>
Digits == <<"0", "1", "2", "3", "4", "5", "6", "7", "8", "9">>

\* The canonical form the i flag compares characters in: one case per letter.
Lower(c) ==
    IF \E i \in DOMAIN UpperLetters : UpperLetters[i] = c
    THEN LowerLetters[CHOOSE i \in DOMAIN UpperLetters : UpperLetters[i] = c]
    ELSE c

LowerStr(s) == [i \in DOMAIN s |-> Lower(s[i])]

\* The characters [a-z0-9\-_\/] lists.
ClassChars ==
    {LowerLetters[i] : i \in DOMAIN LowerLetters}
        \cup {Digits[i] : i \in DOMAIN Digits} \cup {"-", "_", "/"}

\* [a-z0-9\-_\/] with the letters compared as written.
GenericClassAsWritten(c) == c \in ClassChars

\* [a-z0-9\-_\/] under the i flag of the pattern.
GenericClass(c) == Lower(c) \in ClassChars

\* filePath.match(/\/([a-z0-9\-_\/]+)\.(html?|php|md)$/i): the capture of the
\* leftmost match, or None.
GenericCapture(s) ==
    LET ok(i, t) ==
            /\ s[i] = "/"
            /\ Len(s) - Len(t) >= i + 1
            /\ LowerStr(SubSeq(s, Len(s) - Len(t) + 1, Len(s))) = t
            /\ \A j \in (i + 1)..(Len(s) - Len(t)) : GenericClass(s[j])
        starts == {i \in 1..Len(s) : \E t \in GenericTails : ok(i, t)}
    IN  IF starts = {} THEN None
        ELSE LET i == Least(starts)
                 n == Least({Len(t) : t \in {x \in GenericTails : ok(i, x)}})
             IN  Some(SubSeq(s, i + 1, Len(s) - n))

\* A ResolvedURL.
Route(urlPath, confidence, reasoning) ==
    [urlPath |-> urlPath, confidence |-> confidence, reasoning |-> reasoning]

\* '/' + capture.replace(single bracket).replace(catch-all).replace(/index)
BracketPath(capture) ==
    <<"/">> \o StripIndex(ReplaceCatchAll(ReplaceDynamic(capture)))

\* '/' + capture.replace(/\$/g, ':').replace(/\./g, '/').replace(/index)
RemixPath(capture) ==
    <<"/">> \o StripIndex(ReplaceChar(ReplaceChar(capture, "$", <<":">>), ".", <<"/">>))

\* URLResolver.resolveAstro
ResolveAstro(filePath) ==
    LET match == LazyCapture(filePath, <<"/", "s", "r", "c", "/", "p", "a", "g", "e", "s", "/">>, AstroTails)
    IN  IF match /= None
        THEN Some(Route(OrSlash(BracketPath(match[1])), "high", "Astro pages pattern"))
        ELSE None

\* resolveNextJS trying the Astro pattern when neither Next.js pattern
\* matches.
ResolveNextJSThenAstro(filePath) ==
    LET appRouterMatch == LazyCapture(filePath, <<"/", "a", "p", "p", "/">>, AppTails)
        pagesRouterMatch == LazyCapture(filePath, <<"/", "p", "a", "g", "e", "s", "/">>, ScriptTails)
    IN  IF appRouterMatch /= None
        THEN Some(Route(OrSlash(BracketPath(appRouterMatch[1])), "high",
                        "Next.js App Router pattern"))
        ELSE IF pagesRouterMatch /= None
        THEN Some(Route(OrSlash(BracketPath(pagesRouterMatch[1])), "high",
                        "Next.js Pages Router pattern"))
        ELSE ResolveAstro(filePath)

\* URLResolver.resolveNextJS
ResolveNextJS(filePath) ==
    LET appRouterMatch == LazyCapture(filePath, <<"/", "a", "p", "p", "/">>, AppTails)
        pagesRouterMatch == LazyCapture(filePath, <<"/", "p", "a", "g", "e", "s", "/">>, ScriptTails)
    IN  IF appRouterMatch /= None
        THEN Some(Route(OrSlash(BracketPath(appRouterMatch[1])), "high",
                        "Next.js App Router pattern"))
        ELSE IF pagesRouterMatch /= None
        THEN Some(Route(OrSlash(BracketPath(pagesRouterMatch[1])), "high",
                        "Next.js Pages Router pattern"))
        ELSE None

\* URLResolver.resolveRemix
ResolveRemix(filePath) ==
    LET match == LazyCapture(filePath, <<"/", "r", "o", "u", "t", "e", "s", "/">>, ScriptTails)
    IN  IF match /= None
        THEN Some(Route(OrSlash(RemixPath(match[1])), "high", "Remix routes pattern"))
        ELSE None

\* resolveGeneric reporting its route with confidence high.
ResolveGenericHigh(filePath) ==
    LET match == GenericCapture(filePath)
    IN  IF match /= None
        THEN Some(Route(<<"/">> \o match[1], "high", "Generic path extraction"))
        ELSE None

\* URLResolver.resolveGeneric
ResolveGeneric(filePath) ==
    LET match == GenericCapture(filePath)
    IN  IF match /= None
        THEN Some(Route(<<"/">> \o match[1], "low", "Generic path extraction"))
        ELSE None

\* detectFramework with the Astro test made first.
DetectFrameworkAstroFirst(filePath) ==
    IF Includes(filePath, <<"/", "s", "r", "c", "/", "p", "a", "g", "e", "s", "/">>) THEN "astro"
    ELSE IF Includes(filePath, <<"/", "a", "p", "p", "/">>) \/ Includes(filePath, <<"/", "p", "a", "g", "e", "s", "/">>) THEN "nextjs"
    ELSE IF Includes(filePath, <<"/", "r", "o", "u", "t", "e", "s", "/">>) THEN "remix"
    ELSE "generic"

\* URLResolver.detectFramework
DetectFramework(filePath) ==
    IF Includes(filePath, <<"/", "a", "p", "p", "/">>) \/ Includes(filePath, <<"/", "p", "a", "g", "e", "s", "/">>) THEN "nextjs"
    ELSE IF Includes(filePath, <<"/", "s", "r", "c", "/", "p", "a", "g", "e", "s", "/">>) THEN "astro"
    ELSE IF Includes(filePath, <<"/", "r", "o", "u", "t", "e", "s", "/">>) THEN "remix"
    ELSE "generic"

\* framework || this.detectFramework(filePath): an absent or empty hint is
\* falsy.
DetectedFramework(filePath, framework) ==
    IF framework /= None /\ framework[1] /= "" THEN framework[1]
    ELSE DetectFramework(filePath)

\* The switch of resolve on the dispatched framework.
Dispatch(filePath, detectedFramework) ==
    CASE detectedFramework = "nextjs" -> ResolveNextJS(filePath)
      [] detectedFramework = "astro" -> ResolveAstro(filePath)
      [] detectedFramework = "remix" -> ResolveRemix(filePath)
      [] OTHER -> ResolveGeneric(filePath)

\* resolve trying the generic matcher when the framework's matcher finds
\* nothing.
ResolveFallThrough(filePath, framework) ==
    LET r == Dispatch(filePath, DetectedFramework(filePath, framework))
    IN  IF r = None THEN ResolveGeneric(filePath) ELSE r

\* URLResolver.resolve
Resolve(filePath, framework) ==
    Dispatch(filePath, DetectedFramework(filePath, framework))

\* File paths handed to resolve are written prefix + directory + segments +
\* file + extension; the segments are joined with "/" or, as in flat route
\* files, with ".".
PathPrefixes == {<< >>, <<"/", "s", "r", "c">>}

PathDirs == {<<"/", "a", "p", "p", "/">>, <<"/", "p", "a", "g", "e", "s", "/">>, <<"/", "r", "o", "u", "t", "e", "s", "/">>, <<"/", "s", "t", "a", "t", "i", "c", "/">>, <<"/", "w", "e", "i", "r", "d", "/">>}

\* The segment lists: plain names, index, dynamic [x] and $x, catch-all
\* [...x], an upper-case name.
PathBodies ==
    { <<<<"b", "l", "o", "g">>>>, <<<<"i", "n", "d", "e", "x">>>>, <<<<"b", "l", "o", "g">>, <<"i", "n", "d", "e", "x">>>>, <<<<"i", "n", "d", "e", "x">>, <<"i", "n", "d", "e", "x">>>>,
      <<<<"b", "l", "o", "g">>, <<"[", "s", "l", "u", "g", "]">>>>, <<<<"[", "l", "a", "n", "g", "]">>, <<"[", "s", "l", "u", "g", "]">>>>, <<<<"b", "l", "o", "g">>, <<"[", "s", "l", "u", "g", "]">>, <<"i", "n", "d", "e", "x">>>>,
      <<<<"d", "o", "c", "s">>, <<"[", ".", ".", ".", "p", "a", "t", "h", "]">>>>, <<<<"[", ".", ".", ".", "p", "a", "t", "h", "]">>>>,
      <<<<"b", "l", "o", "g">>, <<"$", "s", "l", "u", "g">>>>, <<<<"$", "l", "a", "n", "g">>, <<"$", "s", "l", "u", "g">>>>,
      <<<<"c", "o", "n", "t", "a", "c", "t", "-", "u", "s">>>>, <<<<"v", "2", "_", "d", "o", "c", "s">>>>, <<<<"A", "b", "o", "u", "t">>>>, <<<<"f", "i", "l", "e">>>> }

PathSeps == {"/", "."}

PathFiles == {<< >>, <<"/", "p", "a", "g", "e">>}

PathExts == {<<".", "t", "s", "x">>, <<".", "j", "s">>, <<".", "a", "s", "t", "r", "o">>, <<".", "h", "t", "m", "l">>, <<".", "H", "T", "M">>, <<".", "p", "h", "p">>, <<".", "m", "d">>, <<".", "u", "n", "k", "n", "o", "w", "n">>}

\* The framework argument: absent, empty, the four names resolve knows, and
\* a name it does not know.
Hints == {None, Some(""), Some("nextjs"), Some("astro"), Some("remix"), Some("generic"), Some("vue")}

\* The file path written from its pieces.
PathOf(prefix, dir, segs, sep, file, ext) ==
    prefix \o dir \o Join(segs, <<sep>>) \o file \o ext

\* A call of resolve that has not returned yet.
ResolveCalls ==
    { [fn |-> "resolve", st |-> "called", prefix |-> prefix, dir |-> dir, segs |-> segs,
       sep |-> sep, file |-> file, ext |-> ext,
       filePath |-> PathOf(prefix, dir, segs, sep, file, ext), framework |-> hint] :
          prefix \in PathPrefixes, dir \in PathDirs, segs \in PathBodies, sep \in PathSeps,
          file \in PathFiles, ext \in PathExts, hint \in Hints }

\* Array.prototype.includes
Member(list, x) == \E i \in DOMAIN list : list[i] = x

\* urlPath.endsWith('/') ? urlPath : urlPath + '/'
WithSlash(urlPath) == IF EndsWith(urlPath, <<"/">>) THEN urlPath ELSE urlPath \o <<"/">>

\* urlPath.replace(/\/$/, '')
WithoutSlash(urlPath) ==
    IF EndsWith(urlPath, <<"/">>) THEN SubSeq(urlPath, 1, Len(urlPath) - 1) ELSE urlPath

\* availableUrls.find(url => url.includes(urlPath) || urlPath.includes(url)):
\* the first such entry, or None for undefined.
FuzzyMatch(urlPath, availableUrls) ==
    LET hits == {i \in DOMAIN availableUrls :
                    Includes(availableUrls[i], urlPath) \/ Includes(urlPath, availableUrls[i])}
    IN  IF hits = {} THEN None ELSE Some(availableUrls[Least(hits)])

\* URLResolver.findMatch; `if (fuzzyMatch)` takes undefined and '' as falsy.
FindMatch(urlPath, availableUrls) ==
    IF Member(availableUrls, urlPath) THEN Some(urlPath)
    ELSE IF Member(availableUrls, WithSlash(urlPath)) THEN Some(WithSlash(urlPath))
    ELSE IF Member(availableUrls, WithoutSlash(urlPath)) THEN Some(WithoutSlash(urlPath))
    ELSE LET fuzzyMatch == FuzzyMatch(urlPath, availableUrls)
         IN  IF fuzzyMatch /= None /\ fuzzyMatch[1] /= << >> THEN fuzzyMatch ELSE None

\* The URLs of a site, as candidates and as list entries: '', '/', '/blog',
\* '/blog/', '/blog/post', '/blog/post/', '/about'.
Urls == {<< >>, <<"/">>, <<"/", "b", "l", "o", "g">>, <<"/", "b", "l", "o", "g", "/">>, <<"/", "b", "l", "o", "g", "/", "p", "o", "s", "t">>, <<"/", "b", "l", "o", "g", "/", "p", "o", "s", "t", "/">>, <<"/", "a", "b", "o", "u", "t">>}

\* Lists of known URLs.
UrlLists == UNION {[1..n -> Urls] : n \in 0..MaxUrls}

\* A call of findMatch that has not returned yet.
MatchCalls ==
    { [fn |-> "findMatch", st |-> "called", urlPath |-> u, availableUrls |-> l] :
          u \in Urls, l \in UrlLists }

\* No stateless helper has been called yet.
NoCall == [fn |-> "none"]

(* ------------------------------- Init ---------------------------------- *)

\* new Cache(defaultTTL?): empty store, defaultTTL || config.cacheTTL, and a
\* 5-minute interval timer whose handle is discarded.
Init ==
    /\ store = << >>
    /\ \E arg \in CtorArgs, cfg \in ConfigTTLs :
          defaultTTL = IF Truthy(arg) THEN arg[1] ELSE cfg
    /\ now = 0
    /\ nextSweep = SweepInterval
    /\ sweepTimer = "armed"
    /\ pending = EmptyBag
    /\ written = [k \in Keys |-> None]
    /\ last = Op("new", None, Null, 0)
    /\ phase = "running"
    /\ raced = {}
    /\ pcall = NoCall

(* ------------------------------ actions -------------------------------- *)

\* The clock advances between callbacks, up to `limit`.
TickTo(limit) ==
    /\ Running
    /\ \E d \in TickSteps :
          /\ now + d <= limit
          /\ now' = now + d
    /\ UNCHANGED <<store, defaultTTL, nextSweep, sweepTimer, pending, written, last, phase, pcall>>
    /\ raced' = Racing

Tick == TickTo(MaxNow)

TickFlight == TickTo(MaxFlightNow)

\* cache.get(key) made to wait until no factory is outstanding.
getLocked(k) ==
    /\ Running
    /\ pending = EmptyBag
    /\ store' = GetStore(store, k, now)
    /\ written' = Keep(written, store')
    /\ last' = Op("get", Some(k), GetRet(store, k, now),
                  Cardinality(DOMAIN store) - Cardinality(DOMAIN store'))
    /\ UNCHANGED <<defaultTTL, now, nextSweep, sweepTimer, pending, phase, pcall>>
    /\ raced' = Racing

\* cache.get(key)
get(k) ==
    /\ Running
    /\ store' = GetStore(store, k, now)
    /\ written' = Keep(written, store')
    /\ last' = Op("get", Some(k), GetRet(store, k, now),
                  Cardinality(DOMAIN store) - Cardinality(DOMAIN store'))
    /\ UNCHANGED <<defaultTTL, now, nextSweep, sweepTimer, pending, phase, pcall>>
    /\ raced' = Racing

\* cache.set(key, value, ttl?)
set(k, v, ttl) ==
    /\ Running
    /\ store' = SetStore(store, k, v, ttl, now)
    /\ written' = [written EXCEPT ![k] = Some([value |-> v, ttl |-> ttl, at |-> now])]
    /\ last' = Op("set", None, Null, 0)
    /\ UNCHANGED <<defaultTTL, now, nextSweep, sweepTimer, pending, phase, pcall>>
    /\ raced' = IF InFlight(k) > 0 THEN Racing \cup {k} ELSE Racing

\* cache.has(key)
has(k) ==
    /\ Running
    /\ store' = HasStore(store, k, now)
    /\ written' = Keep(written, store')
    /\ last' = Op("has", Some(k), HasRet(store, k, now),
                  Cardinality(DOMAIN store) - Cardinality(DOMAIN store'))
    /\ UNCHANGED <<defaultTTL, now, nextSweep, sweepTimer, pending, phase, pcall>>
    /\ raced' = Racing

\* cache.delete(key)
delete(k) ==
    /\ Running
    /\ store' = Without(store, {k})
    /\ written' = Keep(written, store')
    /\ last' = Op("delete", Some(k), k \in DOMAIN store,
                  Cardinality(DOMAIN store) - Cardinality(DOMAIN store'))
    /\ UNCHANGED <<defaultTTL, now, nextSweep, sweepTimer, pending, phase, pcall>>
    /\ raced' = IF InFlight(k) > 0 THEN Racing \cup {k} ELSE Racing

\* cache.deletePattern(pattern)
deletePattern(p) ==
    /\ Running
    /\ store' = Without(store, PatternKeys(store, p))
    /\ written' = Keep(written, store')
    /\ last' = Op("deletePattern", None, Cardinality(PatternKeys(store, p)),
                  Cardinality(DOMAIN store) - Cardinality(DOMAIN store'))
    /\ UNCHANGED <<defaultTTL, now, nextSweep, sweepTimer, pending, phase, pcall>>
    /\ raced' = Racing \cup {k \in Keys : InFlight(k) > 0 /\ RegexTest(p, k)}

\* cache.clear()
clear ==
    /\ Running
    /\ store' = << >>
    /\ written' = Keep(written, store')
    /\ last' = Op("clear", None, Null, Cardinality(DOMAIN store))
    /\ UNCHANGED <<defaultTTL, now, nextSweep, sweepTimer, pending, phase, pcall>>
    /\ raced' = Racing \cup {k \in Keys : InFlight(k) > 0}

\* The interval timer fires: () => this.cleanup().  The timer is re-armed one
\* period after the callback ran.
cleanup ==
    /\ Running
    /\ sweepTimer = "armed"
    /\ now >= nextSweep
    /\ store' = Without(store, ExpiredKeys(store, now))
    /\ written' = Keep(written, store')
    /\ nextSweep' = now + SweepInterval
    /\ last' = Op("cleanup", None, Null, Cardinality(ExpiredKeys(store, now)))
    /\ UNCHANGED <<defaultTTL, now, sweepTimer, pending, phase, pcall>>
    /\ raced' = Racing

\* cache.getOrSet(key, factory, ttl?), up to `await factory()`: a hit returns
\* the cached value; a miss invokes the factory and suspends the call until
\* the factory's promise settles.
getOrSet(k, ttl) ==
    /\ Running
    /\ store' = GetStore(store, k, now)
    /\ written' = Keep(written, store')
    /\ IF GetRet(store, k, now) /= Null
       THEN /\ pending' = pending
            /\ last' = Op("getOrSet.hit", Some(k), GetRet(store, k, now),
                          Cardinality(DOMAIN store) - Cardinality(DOMAIN store'))
       ELSE /\ BagCardinality(pending) < MaxCallers
            /\ pending' = pending (+) SetToBag({Call(k, ttl)})
            /\ last' = Op("getOrSet.await", Some(k), Null,
                          Cardinality(DOMAIN store) - Cardinality(DOMAIN store'))
    /\ UNCHANGED <<defaultTTL, now, nextSweep, sweepTimer, phase, pcall>>
    /\ raced' = Racing

\* The factory's promise fulfils with v, and the value is stored only when
\* the key has no live entry by then.
factoryResolveKeepNewer(call, v) ==
    /\ Running
    /\ BagIn(call, pending)
    /\ store' = IF GetRet(store, call.key, now) /= Null THEN store
                ELSE SetStore(store, call.key, v, call.ttl, now)
    /\ written' = IF GetRet(store, call.key, now) /= Null THEN written
                  ELSE [written EXCEPT ![call.key] =
                           Some([value |-> v, ttl |-> call.ttl, at |-> now])]
    /\ pending' = pending (-) SetToBag({call})
    /\ last' = Op("getOrSet.resolved", Some(call.key), v, 0)
    /\ UNCHANGED <<defaultTTL, now, nextSweep, sweepTimer, phase, pcall, raced>>

\* The factory's promise of one suspended call fulfils with v:
\* this.set(key, value, ttl); return value.
factoryResolve(call, v) ==
    /\ Running
    /\ BagIn(call, pending)
    /\ store' = SetStore(store, call.key, v, call.ttl, now)
    /\ written' = [written EXCEPT ![call.key] =
                      Some([value |-> v, ttl |-> call.ttl, at |-> now])]
    /\ pending' = pending (-) SetToBag({call})
    /\ last' = Op("getOrSet.resolved", Some(call.key), v, 0)
    /\ UNCHANGED <<defaultTTL, now, nextSweep, sweepTimer, phase, pcall, raced>>

\* A rejection handled by caching an empty result for the key.
factoryRejectCached(call, e) ==
    /\ Running
    /\ BagIn(call, pending)
    /\ store' = SetStore(store, call.key, Null, call.ttl, now)
    /\ written' = [written EXCEPT ![call.key] =
                      Some([value |-> Null, ttl |-> call.ttl, at |-> now])]
    /\ pending' = pending (-) SetToBag({call})
    /\ last' = Op("getOrSet.rejected", Some(call.key), e, 0)
    /\ UNCHANGED <<defaultTTL, now, nextSweep, sweepTimer, phase, pcall, raced>>

\* The factory's promise of one suspended call rejects with e: the await
\* throws and getOrSet rejects with e.
factoryReject(call, e) ==
    /\ Running
    /\ BagIn(call, pending)
    /\ pending' = pending (-) SetToBag({call})
    /\ last' = Op("getOrSet.rejected", Some(call.key), e, 0)
    /\ UNCHANGED <<store, defaultTTL, now, nextSweep, sweepTimer, written, phase, pcall, raced>>

\* process.on(sig, ...): the handler logs and starts `await server.close()`.
signal(sig) ==
    /\ Running
    /\ phase' = "closing"
    /\ UNCHANGED <<store, defaultTTL, now, nextSweep, sweepTimer, pending, written, last, pcall, raced>>

\* server.close() has settled: process.exit(0).
exit ==
    /\ phase = "closing"
    /\ phase' = "exited"
    /\ UNCHANGED <<store, defaultTTL, now, nextSweep, sweepTimer, pending, written, last, pcall, raced>>

\* The synchronous operations, the clock and the sweep, with no getOrSet call
\* outstanding and no shutdown under way.
NextCache ==
    \/ Tick
    \/ \E k \in Keys : get(k)
    \/ \E k \in Keys, v \in Values, ttl \in TTLArgs : set(k, v, ttl)
    \/ \E k \in Keys : has(k)
    \/ \E k \in Keys : delete(k)
    \/ \E p \in Patterns : deletePattern(p)
    \/ clear
    \/ cleanup

SpecCache == Init /\ [][NextCache]_vars

\* Concurrent getOrSet callers, together with the clock and the writers that
\* can run while a factory is outstanding.
NextFlight ==
    \/ TickFlight
    \/ \E k \in Keys, ttl \in TTLArgs : getOrSet(k, ttl)
    \/ \E call \in Calls, v \in Values : factoryResolve(call, v)
    \/ \E call \in Calls, e \in Errors : factoryReject(call, e)
    \/ \E k \in Keys, v \in Values, ttl \in TTLArgs : set(k, v, ttl)

SpecFlight == Init /\ [][NextFlight]_vars

\* The life of the process: writes, reads, the clock, the sweep and shutdown.
NextLife ==
    \/ Tick
    \/ \E k \in Keys, v \in Values, ttl \in TTLArgs : set(k, v, ttl)
    \/ \E k \in Keys : get(k)
    \/ cleanup
    \/ \E sig \in Signals : signal(sig)
    \/ exit

\* Timers whose time has come do fire, and time passes.
SpecLife == Init /\ [][NextLife]_vars /\ WF_vars(Tick) /\ WF_vars(cleanup)

\* cache.generateKey(...parts)
generateKey(parts) ==
    /\ Running
    /\ pcall' = [fn |-> "generateKey", parts |-> parts, ret |-> GenerateKey(parts)]
    /\ UNCHANGED <<store, defaultTTL, now, nextSweep, sweepTimer, pending, written, last, phase, raced>>

\* Callers building cache keys.
NextKey == \E parts \in PartLists : generateKey(parts)

SpecKey == Init /\ [][NextKey]_vars

\* The state in which a caller has just called urlResolver.resolve.
InitResolve ==
    /\ store = << >>
    /\ \E arg \in CtorArgs, cfg \in ConfigTTLs :
          defaultTTL = IF Truthy(arg) THEN arg[1] ELSE cfg
    /\ now = 0
    /\ nextSweep = SweepInterval
    /\ sweepTimer = "armed"
    /\ pending = EmptyBag
    /\ written = [k \in Keys |-> None]
    /\ last = Op("new", None, Null, 0)
    /\ phase = "running"
    /\ raced = {}
    /\ pcall \in ResolveCalls

\* urlResolver.resolve(filePath, framework) runs and returns.
resolve ==
    /\ Running
    /\ pcall.fn = "resolve"
    /\ pcall.st = "called"
    /\ pcall' = [fn |-> "resolve", st |-> "returned", prefix |-> pcall.prefix,
                 dir |-> pcall.dir, segs |-> pcall.segs, sep |-> pcall.sep,
                 file |-> pcall.file, ext |-> pcall.ext, filePath |-> pcall.filePath,
                 framework |-> pcall.framework,
                 detectedFramework |-> DetectedFramework(pcall.filePath, pcall.framework),
                 ret |-> Resolve(pcall.filePath, pcall.framework)]
    /\ UNCHANGED <<store, defaultTTL, now, nextSweep, sweepTimer, pending, written, last, phase, raced>>

NextResolve == resolve

SpecResolve == InitResolve /\ [][NextResolve]_vars

\* The state in which a caller has just called urlResolver.findMatch.
InitMatch ==
    /\ store = << >>
    /\ \E arg \in CtorArgs, cfg \in ConfigTTLs :
          defaultTTL = IF Truthy(arg) THEN arg[1] ELSE cfg
    /\ now = 0
    /\ nextSweep = SweepInterval
    /\ sweepTimer = "armed"
    /\ pending = EmptyBag
    /\ written = [k \in Keys |-> None]
    /\ last = Op("new", None, Null, 0)
    /\ phase = "running"
    /\ raced = {}
    /\ pcall \in MatchCalls

\* urlResolver.findMatch(urlPath, availableUrls) runs and returns.
findMatch ==
    /\ Running
    /\ pcall.fn = "findMatch"
    /\ pcall.st = "called"
    /\ pcall' = [fn |-> "findMatch", st |-> "returned", urlPath |-> pcall.urlPath,
                 availableUrls |-> pcall.availableUrls,
                 ret |-> FindMatch(pcall.urlPath, pcall.availableUrls)]
    /\ UNCHANGED <<store, defaultTTL, now, nextSweep, sweepTimer, pending, written, last, phase, raced>>

NextMatch == findMatch

SpecMatch == InitMatch /\ [][NextMatch]_vars

(* --------------------------- the tool dispatcher ------------------------ *)

\* The names the tool registry defines.
RegisteredTools == {"generate_meta", "generate_schema", "get_seo_context"}

\* Names the registry object does not define itself but answers a property
\* read for, because it inherits them: two functions and the prototype.
ObjectPrototypeNames == {"constructor", "toString", "__proto__"}

\* The names a request may carry.
ToolNames == RegisteredTools \cup ObjectPrototypeNames \cup {"unknown_tool", ""}

\* The arguments a request may carry: absent, of the tool's shape, or not.
ToolArgs == {None, Some("valid"), Some("invalid")}

\* tools[name]: absent for a name the object does not answer for, a tool with
\* a schema and a handler for a registered name, and an inherited value, which
\* has neither, for an inherited name.
ToolLookup(name) ==
    IF name \in RegisteredTools
    THEN Some([schema |-> Some(name), handler |-> Some(name)])
    ELSE IF name \in ObjectPrototypeNames
         THEN Some([schema |-> None, handler |-> None])
         ELSE None

\* tool.schema.parse(args) returns: the arguments have the tool's shape.
SchemaAccepts(args) == args = Some("valid")

\* What a handler may return: a result, or an object carrying 'error'.
HandlerResults ==
    {[error |-> None, data |-> Some("d1")], [error |-> Some("e1"), data |-> None]}

\* What may be thrown: an Error with its message, or a value that is no Error.
Thrown ==
    {[isError |-> TRUE, message |-> "boom"], [isError |-> TRUE, message |-> ""],
     [isError |-> FALSE, message |-> "thrown string"]}

\* The error parse throws on arguments not of the tool's shape.
ZodError == [isError |-> TRUE, message |-> "invalid arguments"]

\* The error reading .parse of an undefined schema throws.
SchemaTypeError ==
    [isError |-> TRUE, message |-> "Cannot read properties of undefined (reading 'parse')"]

McpError(code, message) == [kind |-> "McpError", code |-> code, message |-> message]

\* The catch block: every error caught becomes an InternalError.
ToolFailed(error) ==
    IF error.isError
    THEN McpError("InternalError", <<"Tool execution failed: ", error.message>>)
    ELSE McpError("InternalError", <<"Tool execution failed with unknown error">>)

\* 'error' in result.
HasError(result) == result.error /= None

\* The response built from a handler's result: one text item holding the
\* result's JSON text.
TextResponse(result) ==
    [kind |-> "response",
     content |-> <<[type |-> "text", text |-> <<"JSON.stringify", result>>]>>]

\* The requests a client may send.
ToolCalls ==
    {[fn |-> "callTool", st |-> "called", name |-> n, args |-> a,
      validated |-> FALSE, handlerRan |-> FALSE, outcome |-> None,
      success |-> None, response |-> None] : n \in ToolNames, a \in ToolArgs}

\* The state in which a CallTool request has just arrived.
InitDispatch ==
    /\ store = << >>
    /\ \E arg \in CtorArgs, cfg \in ConfigTTLs :
          defaultTTL = IF Truthy(arg) THEN arg[1] ELSE cfg
    /\ now = 0
    /\ nextSweep = SweepInterval
    /\ sweepTimer = "armed"
    /\ pending = EmptyBag
    /\ written = [k \in Keys |-> None]
    /\ last = Op("new", None, Null, 0)
    /\ phase = "running"
    /\ raced = {}
    /\ pcall \in ToolCalls

\* The CallTool handler up to its await: the lookup, the validation and the
\* call of the tool's handler.
callTool ==
    /\ Running
    /\ pcall.fn = "callTool"
    /\ pcall.st = "called"
    /\ LET tool == ToolLookup(pcall.name) IN
         pcall' =
           IF tool = None
           THEN [pcall EXCEPT !.st = "returned",
                   !.response = Some(McpError("MethodNotFound",
                                              <<"Unknown tool: ", pcall.name>>))]
           ELSE IF tool[1].schema = None
           THEN [pcall EXCEPT !.st = "returned",
                   !.response = Some(ToolFailed(SchemaTypeError))]
           ELSE IF ~SchemaAccepts(pcall.args)
           THEN [pcall EXCEPT !.st = "returned",
                   !.response = Some(ToolFailed(ZodError))]
           ELSE [pcall EXCEPT !.st = "awaiting", !.validated = TRUE,
                   !.handlerRan = TRUE]
    /\ UNCHANGED <<store, defaultTTL, now, nextSweep, sweepTimer, pending, written, last, phase, raced>>

\* The tool's handler resolves: the result is logged and returned as text.
handlerResolve(result) ==
    /\ Running
    /\ pcall.fn = "callTool"
    /\ pcall.st = "awaiting"
    /\ pcall' = [pcall EXCEPT !.st = "returned",
                   !.outcome = Some([kind |-> "returned", value |-> result]),
                   !.success = Some(~HasError(result)),
                   !.response = Some(TextResponse(result))]
    /\ UNCHANGED <<store, defaultTTL, now, nextSweep, sweepTimer, pending, written, last, phase, raced>>

\* The tool's handler rejects: the catch block reports the failure.
handlerReject(error) ==
    /\ Running
    /\ pcall.fn = "callTool"
    /\ pcall.st = "awaiting"
    /\ pcall' = [pcall EXCEPT !.st = "returned",
                   !.outcome = Some([kind |-> "threw", value |-> error]),
                   !.response = Some(ToolFailed(error))]
    /\ UNCHANGED <<store, defaultTTL, now, nextSweep, sweepTimer, pending, written, last, phase, raced>>

\* One request through the dispatcher.
NextDispatch ==
    \/ callTool
    \/ \E result \in HandlerResults : handlerResolve(result)
    \/ \E error \in Thrown : handlerReject(error)

SpecDispatch == InitDispatch /\ [][NextDispatch]_vars

(* --------------------------- GSC state detection ------------------------ *)

\* The values an optional string field may hold: undefined, null or a string.
Undefined == [t |-> "undefined", s |-> ""]

JsNull == [t |-> "null", s |-> ""]

JsString(s) == [t |-> "string", s |-> s]

\* !x for an optional string: undefined, null and the empty string.
Falsy(x) == x.t /= "string" \/ x.s = ""

\* x === s for an optional string x and a string s.
StrictEq(x, s) == x.t = "string" /\ x.s = s

\* Numbers: NaN, or an integer.
NaN == [nan |-> TRUE, n |-> 0]

JsNumber(n) == [nan |-> FALSE, n |-> n]

\* x > 0 for a number: false for NaN.
GtZero(x) == ~x.nan /\ x.n > 0

\* `${x}` for a number.
NumText(x) == IF x.nan THEN <<"NaN">> ELSE <<x.n>>

\* The fields of a URL record that the detection reads.
CoverageStates ==
    {Undefined, JsNull, JsString(""), JsString("Submitted and indexed"),
     JsString("submitted and indexed"), JsString("Crawled - currently not indexed")}

IndexingStates ==
    {Undefined, JsNull, JsString("INDEXING_STATE_NOT_IN_INDEX"), JsString("INDEXING_ALLOWED")}

LastUpdated == {Undefined, JsNull, JsString(""), JsString("2025-01-01T00:00:00Z")}

URLWithGSCData ==
    [current_gsc_coverage_state : CoverageStates,
     current_gsc_indexing_state : IndexingStates,
     gsc_analytics_last_updated : LastUpdated]

Counts == {NaN, JsNumber(0 - 1), JsNumber(0), JsNumber(2)}

GSCDataState(hasData, reason, message, emoji) ==
    [hasData |-> hasData, reason |-> reason, message |-> message, emoji |-> emoji]

\* url.current_gsc_coverage_state !== 'Submitted and indexed' ||
\* url.current_gsc_indexing_state === 'INDEXING_STATE_NOT_IN_INDEX'
IsNotIndexed(url) ==
    \/ ~StrictEq(url.current_gsc_coverage_state, "Submitted and indexed")
    \/ StrictEq(url.current_gsc_indexing_state, "INDEXING_STATE_NOT_IN_INDEX")

\* The coverage state in brackets, when there is one.
CoverageReason(url) ==
    IF Falsy(url.current_gsc_coverage_state)
    THEN <<>>
    ELSE <<" (", url.current_gsc_coverage_state.s, ")">>

\* The detection with the index test ahead of the sync test.
DetectIndexFirst(url, impressions, clicks) ==
    IF GtZero(impressions) \/ GtZero(clicks)
    THEN GSCDataState(TRUE, "has_data",
             <<"Getting ">> \o NumText(clicks) \o <<" clicks from ">>
                 \o NumText(impressions) \o <<" impressions in last 28 days">>,
             "bar chart")
    ELSE IF IsNotIndexed(url)
    THEN GSCDataState(FALSE, "not_indexed",
             <<"This page is not indexed by Google">> \o CoverageReason(url)
                 \o <<". Zero impressions is expected until indexed.">>,
             "magnifying glass")
    ELSE IF Falsy(url.gsc_analytics_last_updated)
    THEN GSCDataState(FALSE, "no_gsc_data",
             <<"Google Search Console data not yet synced. This may take 24-48 hours for new sites.">>,
             "hourglass")
    ELSE GSCDataState(FALSE, "indexed_no_impressions",
             <<"This page is indexed but hasn't appeared in search results yet (0 impressions in last 28 days)">>,
             "falling chart")

\* detectGSCDataState(url, impressions, clicks)
DetectGSCDataState(url, impressions, clicks) ==
    IF GtZero(impressions) \/ GtZero(clicks)
    THEN GSCDataState(TRUE, "has_data",
             <<"Getting ">> \o NumText(clicks) \o <<" clicks from ">>
                 \o NumText(impressions) \o <<" impressions in last 28 days">>,
             "bar chart")
    ELSE IF Falsy(url.gsc_analytics_last_updated)
    THEN GSCDataState(FALSE, "no_gsc_data",
             <<"Google Search Console data not yet synced. This may take 24-48 hours for new sites.">>,
             "hourglass")
    ELSE IF IsNotIndexed(url)
    THEN GSCDataState(FALSE, "not_indexed",
             <<"This page is not indexed by Google">> \o CoverageReason(url)
                 \o <<". Zero impressions is expected until indexed.">>,
             "magnifying glass")
    ELSE GSCDataState(FALSE, "indexed_no_impressions",
             <<"This page is indexed but hasn't appeared in search results yet (0 impressions in last 28 days)">>,
             "falling chart")

\* The calls a caller may make.
DetectCalls ==
    {[fn |-> "detectGSCDataState", st |-> "called", url |-> u, impressions |-> i,
      clicks |-> c, ret |-> None] : u \in URLWithGSCData, i \in Counts, c \in Counts}

\* The state in which a caller has just called detectGSCDataState.
InitDetect ==
    /\ store = << >>
    /\ \E arg \in CtorArgs, cfg \in ConfigTTLs :
          defaultTTL = IF Truthy(arg) THEN arg[1] ELSE cfg
    /\ now = 0
    /\ nextSweep = SweepInterval
    /\ sweepTimer = "armed"
    /\ pending = EmptyBag
    /\ written = [k \in Keys |-> None]
    /\ last = Op("new", None, Null, 0)
    /\ phase = "running"
    /\ raced = {}
    /\ pcall \in DetectCalls

\* detectGSCDataState(url, impressions, clicks) runs and returns.
detectGSCDataState ==
    /\ Running
    /\ pcall.fn = "detectGSCDataState"
    /\ pcall.st = "called"
    /\ pcall' = [pcall EXCEPT !.st = "returned",
                   !.ret = Some(DetectGSCDataState(pcall.url, pcall.impressions,
                                                   pcall.clicks))]
    /\ UNCHANGED <<store, defaultTTL, now, nextSweep, sweepTimer, pending, written, last, phase, raced>>

NextDetect == detectGSCDataState

SpecDetect == InitDetect /\ [][NextDetect]_vars

\* getOrSet callers that pass no TTL and whose factories succeed, together
\* with every other operation of the cache, the sweep included, while
\* factories are outstanding.
NextBusy ==
    \/ TickFlight
    \/ \E k \in Keys : getOrSet(k, None)
    \/ \E call \in Calls, v \in Values : factoryResolve(call, v)
    \/ \E k \in Keys : get(k)
    \/ \E k \in Keys, v \in Values, ttl \in TTLArgs : set(k, v, ttl)
    \/ \E k \in Keys : has(k)
    \/ \E k \in Keys : delete(k)
    \/ \E p \in Patterns : deletePattern(p)
    \/ clear
    \/ cleanup

SpecBusy == Init /\ [][NextBusy]_vars

\* Every operation of the cache, the resolver and the process.
Next ==
    \/ Tick
    \/ \E k \in Keys : get(k)
    \/ \E k \in Keys, v \in Values, ttl \in TTLArgs : set(k, v, ttl)
    \/ \E k \in Keys : has(k)
    \/ \E k \in Keys : delete(k)
    \/ \E p \in Patterns : deletePattern(p)
    \/ clear
    \/ cleanup
    \/ \E k \in Keys, ttl \in TTLArgs : getOrSet(k, ttl)
    \/ \E call \in Calls, v \in Values : factoryResolve(call, v)
    \/ \E call \in Calls, e \in Errors : factoryReject(call, e)
    \/ \E sig \in Signals : signal(sig)
    \/ exit
    \/ \E parts \in PartLists : generateKey(parts)
    \/ resolve
    \/ findMatch
    \/ callTool
    \/ \E result \in HandlerResults : handlerResolve(result)
    \/ \E error \in Thrown : handlerReject(error)
    \/ detectGSCDataState

Spec == Init /\ [][Next]_vars

(* ------------------------------ properties ----------------------------- *)

\* Key k has an entry that has not expired at the current time.
Live(k) == k \in DOMAIN store /\ now <= store[k].expiresAt

\* C1: single-flight. At no time are two factories outstanding for the same
\* key: a getOrSet that arrives while a factory for its key is outstanding
\* waits for that factory instead of invoking its own.
C1_SingleFlight == \A k \in Keys : InFlight(k) <= 1

\* C2: a failing factory is not cached. The step on which a factory rejects
\* hands the failure to the call that awaited it, completes only that call,
\* and leaves the store as it was, so a key that get reported absent is still
\* absent; a getOrSet on a key with no live value invokes its factory, and
\* when that factory fulfils with v the call stores v under the key and
\* returns v.
C2_FailureNotCached ==
    [][ /\ \A call \in Calls, e \in Errors :
              factoryReject(call, e) =>
                  /\ last' = Op("getOrSet.rejected", Some(call.key), e, 0)
                  /\ store' = store
                  /\ GetRet(store', call.key, now') = GetRet(store, call.key, now)
                  /\ BagCardinality(pending') = BagCardinality(pending) - 1
        /\ \A k \in Keys, ttl \in TTLArgs :
              (getOrSet(k, ttl) /\ ~Live(k)) =>
                  /\ CopiesIn(Call(k, ttl), pending') = CopiesIn(Call(k, ttl), pending) + 1
                  /\ last'.op = "getOrSet.await"
        /\ \A call \in Calls, v \in Values :
              factoryResolve(call, v) =>
                  /\ call.key \in DOMAIN store'
                  /\ store'[call.key].value = v
                  /\ last' = Op("getOrSet.resolved", Some(call.key), v, 0)
      ]_vars

\* C2 witness: a getOrSet on K1 has just been rejected, no call is
\* outstanding and K1 has no entry.
C2_Witness ==
    /\ last.op = "getOrSet.rejected"
    /\ last.key = Some(K1)
    /\ pending = EmptyBag
    /\ K1 \notin DOMAIN store
    /\ now > 0

\* C3: no stale reads. A get of a key whose entry has expiresAt earlier than
\* the time of the read returns absent and leaves no entry for the key; a
\* value that get returns is the value of an entry that has not expired.
C3_NoStaleReads ==
    [][ \A k \in Keys :
            get(k) =>
                /\ (k \in DOMAIN store /\ now > store[k].expiresAt) =>
                       (last'.ret = Null /\ k \notin DOMAIN store')
                /\ last'.ret /= Null =>
                       (Live(k) /\ last'.ret = store[k].value)
      ]_vars

\* C3 witness: a get has just found an expired entry and evicted it.
C3_Witness ==
    /\ last.op = "get"
    /\ last.ret = Null
    /\ last.removed = 1
    /\ last.key[1] \notin DOMAIN store

\* C4: round trip with expiry. While the entry that set(k, v, ttl), ttl > 0,
\* wrote at time `at` is the one in the store, a get(k) before at + ttl
\* seconds returns v; a get(k) later than at + ttl seconds returns absent and
\* a has(k) right after it returns false. A get of a key with no entry
\* returns absent.
C4_RoundTrip ==
    [][ \A k \in Keys :
            get(k) =>
                /\ k \notin DOMAIN store => last'.ret = Null
                /\ (written[k] /= None /\ Truthy(written[k][1].ttl)) =>
                       LET w == written[k][1]
                           deadline == w.at + w.ttl[1] * 1000
                       IN  /\ now < deadline => last'.ret = w.value
                           /\ now > deadline =>
                                  /\ last'.ret = Null
                                  /\ HasRet(store', k, now') = FALSE
      ]_vars

\* C4 witness: a get of K1 has just returned "v1" half way through the 300
\* seconds that the set which wrote it allowed.
C4_Witness ==
    /\ last = Op("get", Some(K1), "v1", 0)
    /\ written[K1] /= None
    /\ written[K1][1].value = "v1"
    /\ written[K1][1].ttl = Some(300)
    /\ written[K1][1].at < now
    /\ now < written[K1][1].at + 300 * 1000

\* C5: getOrSet(k, produce, ttl). With a live entry for k, whatever its value,
\* the call returns that value and invokes no factory; otherwise it invokes
\* the factory and, when the factory fulfils with v, stores v under k to
\* expire ttl seconds later (defaultTTL when no ttl is given) and returns v.
C5_GetOrSet ==
    [][ /\ \A k \in Keys, ttl \in TTLArgs :
              getOrSet(k, ttl) =>
                  IF Live(k)
                  THEN /\ pending' = pending
                       /\ last'.op = "getOrSet.hit"
                       /\ last'.ret = store[k].value
                  ELSE /\ CopiesIn(Call(k, ttl), pending') = CopiesIn(Call(k, ttl), pending) + 1
                       /\ last'.op = "getOrSet.await"
        /\ \A call \in Calls, v \in Values :
              factoryResolve(call, v) =>
                  /\ call.key \in DOMAIN store'
                  /\ store'[call.key] =
                        [value |-> v,
                         expiresAt |-> now + (IF call.ttl /= None THEN call.ttl[1]
                                              ELSE defaultTTL) * 1000]
                  /\ last'.ret = v
      ]_vars

\* C6: set(k, v, ttl) writes [v, now + ttl seconds] under k for every ttl that
\* is supplied, [v, now + defaultTTL seconds] when none is, replaces whatever
\* k held and touches no other key.
C6_SetExpiry ==
    [][ \A k \in Keys, v \in Values, ttl \in TTLArgs :
            set(k, v, ttl) =>
                /\ DOMAIN store' = DOMAIN store \cup {k}
                /\ store'[k] =
                      [value |-> v,
                       expiresAt |-> now + (IF ttl /= None THEN ttl[1]
                                            ELSE defaultTTL) * 1000]
                /\ \A j \in DOMAIN store \ {k} : store'[j] = store[j]
      ]_vars

\* C7: has(k) returns true exactly when k has an entry with now <= expiresAt;
\* it changes the store exactly as get(k) does: an expired entry of k is
\* removed, nothing else changes.
C7_HasLikeGet ==
    [][ \A k \in Keys :
            has(k) =>
                /\ last'.ret = (k \in DOMAIN store /\ now <= store[k].expiresAt)
                /\ (k \in DOMAIN store /\ now > store[k].expiresAt) => k \notin DOMAIN store'
                /\ Live(k) => store' = store
                /\ \A j \in Keys \ {k} :
                      /\ j \in DOMAIN store' <=> j \in DOMAIN store
                      /\ j \in DOMAIN store => store'[j] = store[j]
                /\ store' = GetStore(store, k, now)
      ]_vars

\* C7 witness: a has has just found an expired entry, removed it and
\* returned false, while the other key kept its entry.
C7_Witness ==
    /\ last.op = "has"
    /\ last.ret = FALSE
    /\ last.removed = 1
    /\ last.key[1] \notin DOMAIN store
    /\ store /= << >>

\* What new RegExp(p).test(k) answers for the patterns and keys of the model,
\* written out: "^s", "s", "s$", "^s:a$", "a:s", "x" against "s:a" and "a:s".
Matches(p, k) ==
    \/ p = Pat(TRUE, <<"s">>, FALSE) /\ k = K1
    \/ p = Pat(FALSE, <<"s">>, FALSE)
    \/ p = Pat(FALSE, <<"s">>, TRUE) /\ k = K2
    \/ p = Pat(TRUE, K1, TRUE) /\ k = K1
    \/ p = Pat(FALSE, K2, FALSE) /\ k = K2

\* C8: deletePattern(p) removes exactly the keys in which the regular
\* expression p finds a match (the whole key is the string searched, ^ and $
\* anchor the match to its ends), returns how many it removed, and leaves
\* every other key with its value and expiresAt.
C8_DeletePattern ==
    [][ \A p \in Patterns :
            deletePattern(p) =>
                /\ DOMAIN store' = {k \in DOMAIN store : ~Matches(p, k)}
                /\ \A k \in DOMAIN store' : store'[k] = store[k]
                /\ last'.ret = Cardinality({k \in DOMAIN store : Matches(p, k)})
      ]_vars

\* C8 witness: a deletePattern has just removed one key and kept the other.
C8_Witness ==
    /\ last.op = "deletePattern"
    /\ last.ret = 1
    /\ Cardinality(DOMAIN store) = 1

\* C9: periodic cleanup. Each sweep removes exactly the entries whose
\* expiresAt is earlier than the sweep time, leaves the others as they were
\* and leaves the timer armed for one period later; and an entry that expires
\* before a sweep that the explored time span still contains is eventually
\* gone (or overwritten with a later expiry), unless the process exits first.
C9_PeriodicCleanup ==
    /\ [][ cleanup =>
               /\ DOMAIN store' = {k \in DOMAIN store : ~(store[k].expiresAt < now)}
               /\ \A k \in DOMAIN store' : store'[k] = store[k]
               /\ sweepTimer' = "armed"
               /\ nextSweep' = now + 300000
         ]_vars
    /\ \A k \in Keys :
          (/\ k \in DOMAIN store
           /\ store[k].expiresAt < nextSweep
           /\ \A d \in TickSteps : nextSweep + d <= MaxNow)
          ~> (\/ k \notin DOMAIN store
              \/ store[k].expiresAt >= nextSweep
              \/ phase = "exited")

\* C9 witness: the second sweep has just run, removed an expired entry and
\* kept an unexpired one.
C9_Witness ==
    /\ last.op = "cleanup"
    /\ last.removed = 1
    /\ Cardinality(DOMAIN store) = 1
    /\ nextSweep >= 3 * 300000

\* C10: once the shutdown sequence has run, the cleanup timer has been
\* cancelled.
C10_ShutdownStopsSweep == phase = "exited" => sweepTimer = "cancelled"

\* The parts generateKey is to keep: every number, and every string but "".
RECURSIVE KeptParts(_)
KeptParts(parts) ==
    IF parts = << >> THEN << >>
    ELSE IF Head(parts).t = "num" \/ (Head(parts).t = "str" /\ Head(parts).s /= << >>)
         THEN <<PartToStr(Head(parts))>> \o KeptParts(Tail(parts))
         ELSE KeptParts(Tail(parts))

\* C11: generateKey returns the parts that are neither absent nor the empty
\* string, every number included, in their order, joined with ':'.
C11_GenerateKey ==
    pcall.fn = "generateKey" => pcall.ret = Join(KeptParts(pcall.parts), <<":">>)

\* C12 as stated: a get that reads a key at the very instant its entry expires
\* (or later) returns absent and leaves no entry for the key.
C12_AbsentAtExpiry ==
    [][ \A k \in Keys :
            (get(k) /\ k \in DOMAIN store /\ now >= store[k].expiresAt) =>
                (last'.ret = Null /\ k \notin DOMAIN store')
      ]_vars

\* C12, amended: a get at exactly expiresAt returns the stored value and
\* keeps the entry; a get at any later time returns absent and removes the
\* entry in the same step. Whatever set, delete, deletePattern, clear and the
\* sweep did before, a get leaves the key either with its entry untouched or
\* with no entry and an absent result, and changes no other key.
C12_EvictionRace ==
    [][ \A k \in Keys :
            get(k) =>
                /\ (k \in DOMAIN store /\ now = store[k].expiresAt) =>
                       (last'.ret = store[k].value /\ store' = store)
                /\ (k \in DOMAIN store /\ now > store[k].expiresAt) =>
                       (last'.ret = Null /\ k \notin DOMAIN store')
                /\ k \in DOMAIN store' => (k \in DOMAIN store /\ store'[k] = store[k])
                /\ (k \in DOMAIN store /\ k \notin DOMAIN store') => last'.ret = Null
                /\ \A j \in Keys \ {k} :
                      /\ j \in DOMAIN store' <=> j \in DOMAIN store
                      /\ j \in DOMAIN store => store'[j] = store[j]
      ]_vars

\* C12 witness: a get has just returned "v1" at the very instant the entry
\* expires, some time after it was written.
C12_Witness ==
    /\ last.op = "get"
    /\ last.ret = "v1"
    /\ last.key[1] \in DOMAIN store
    /\ store[last.key[1]].expiresAt = now
    /\ written[last.key[1]][1].at < now

\* A resolve call has returned.
Resolved == pcall.fn = "resolve" /\ pcall.st = "returned"

\* The matcher that produced the returned route.
MatchedBy(reasoning) == Resolved /\ pcall.ret /= None /\ pcall.ret[1].reasoning = reasoning

\* The route came from one of the three bracket conventions, for a path whose
\* segments are separated by "/".
BracketMatched ==
    /\ pcall.sep = "/"
    /\ \/ MatchedBy("Next.js App Router pattern")
       \/ MatchedBy("Next.js Pages Router pattern")
       \/ MatchedBy("Astro pages pattern")

\* The segments between the framework directory and the extension (the App
\* Router pattern leaves the page file out of them).
CapturedSegs ==
    IF MatchedBy("Next.js App Router pattern") \/ pcall.file = << >>
    THEN pcall.segs
    ELSE pcall.segs \o <<Tail(pcall.file)>>

\* A catch-all segment [...name] and a dynamic segment [name].
IsCatchAll(seg) == Len(seg) > 5 /\ SubSeq(seg, 1, 4) = <<"[", ".", ".", ".">> /\ seg[Len(seg)] = "]"
IsDynamic(seg) == Len(seg) > 2 /\ seg[1] = "[" /\ seg[Len(seg)] = "]" /\ ~IsCatchAll(seg)

\* The segments with every catch-all segment written '*'.
Starred(segs) == [i \in DOMAIN segs |-> IF IsCatchAll(segs[i]) THEN <<"*">> ELSE segs[i]]

\* C13: for a path of the App Router, Pages Router or Astro pattern, every
\* catch-all segment [...name] comes out as '*', and the URL holds neither
\* '...' nor a bracket.
C13_CatchAll ==
    (BracketMatched /\ \E i \in DOMAIN CapturedSegs : IsCatchAll(CapturedSegs[i])) =>
        /\ pcall.ret[1].urlPath = <<"/">> \o Join(Starred(CapturedSegs), <<"/">>)
        /\ ~Includes(pcall.ret[1].urlPath, <<".", ".", ".">>)
        /\ ~Includes(pcall.ret[1].urlPath, <<"[">>)
        /\ ~Includes(pcall.ret[1].urlPath, <<"]">>)
        /\ pcall.ret[1].confidence = "high"

\* The segments with every dynamic segment [name] written ':name'.
Coloned(segs) ==
    [i \in DOMAIN segs |->
        IF IsDynamic(segs[i]) THEN <<":">> \o SubSeq(segs[i], 2, Len(segs[i]) - 1)
        ELSE segs[i]]

\* All segments but the last.
Front(segs) == SubSeq(segs, 1, Len(segs) - 1)

\* C14: for a path of the App Router, Pages Router or Astro pattern whose last
\* segment is 'index', that segment is removed from the URL, and a URL left
\* empty is '/': '/pages/index.tsx' gives '/', '/pages/blog/index.tsx' '/blog'.
C14_IndexCollapse ==
    (BracketMatched /\ CapturedSegs[Len(CapturedSegs)] = <<"i", "n", "d", "e", "x">>) =>
        /\ pcall.ret[1].urlPath =
              IF Len(CapturedSegs) = 1 THEN <<"/">>
              ELSE <<"/">> \o Join(Coloned(Front(CapturedSegs)), <<"/">>)
        /\ pcall.ret[1].confidence = "high"

\* The route came from the App Router pattern for "/"-separated segments of
\* which exactly one is a dynamic segment [x] and none a catch-all.
OneDynamic ==
    /\ MatchedBy("Next.js App Router pattern")
    /\ pcall.sep = "/"
    /\ Cardinality({i \in DOMAIN pcall.segs : IsDynamic(pcall.segs[i])}) = 1
    /\ \A i \in DOMAIN pcall.segs : ~IsCatchAll(pcall.segs[i])

\* C15 as stated: for an App Router path with a single dynamic segment [x],
\* the URL is the segments with [x] written ':x' and every other segment
\* unchanged, confidence high.
C15_OthersUnchanged ==
    OneDynamic =>
        /\ pcall.ret[1].urlPath = <<"/">> \o Join(Coloned(pcall.segs), <<"/">>)
        /\ pcall.ret[1].confidence = "high"

\* C15, amended: for an App Router path with a single dynamic segment [x],
\* the URL is the segments with [x] written ':x', a last segment 'index'
\* removed and every other segment unchanged, confidence high.
C15_DynamicSegment ==
    OneDynamic =>
        /\ pcall.ret[1].urlPath =
              <<"/">> \o Join(Coloned(IF pcall.segs[Len(pcall.segs)] = <<"i", "n", "d", "e", "x">>
                                     THEN Front(pcall.segs) ELSE pcall.segs), <<"/">>)
        /\ pcall.ret[1].confidence = "high"

\* C15 witness: resolve('/app/blog/[slug]/page.tsx') has returned '/blog/:slug'.
C15_Witness ==
    /\ OneDynamic
    /\ pcall.filePath = <<"/", "a", "p", "p", "/", "b", "l", "o", "g", "/", "[", "s", "l", "u", "g", "]", "/", "p", "a", "g", "e", ".", "t", "s", "x">>
    /\ pcall.ret[1].urlPath = <<"/", "b", "l", "o", "g", "/", ":", "s", "l", "u", "g">>


\* The segments of a flat route file, the file name included.
RouteSegs == IF pcall.file = << >> THEN pcall.segs ELSE pcall.segs \o <<Tail(pcall.file)>>

\* A segment with each '$' written ':' and each '.' written '/'.
DollarDot(seg) ==
    [i \in DOMAIN seg |-> IF seg[i] = "$" THEN ":" ELSE IF seg[i] = "." THEN "/" ELSE seg[i]]

\* The URL the Remix rule gives the segments: '$' to ':', every separator
\* '/', a last segment 'index' that follows another one removed.
RemixUrl(segs) ==
    LET m == [i \in DOMAIN segs |-> DollarDot(segs[i])]
    IN  <<"/">> \o Join(IF Len(m) > 1 /\ m[Len(m)] = <<"i", "n", "d", "e", "x">> THEN Front(m) ELSE m, <<"/">>)

GenericDispatched == Resolved /\ pcall.detectedFramework \notin {"nextjs", "astro", "remix"}

\* The file path without its extension.
Stem == pcall.prefix \o pcall.dir \o Join(pcall.segs, <<pcall.sep>>) \o pcall.file

\* Lowercase letters, digits, hyphen, underscore and slash; the capital
\* letters.
SlugChars ==
    {"a", "b", "c", "d", "e", "f", "g", "h", "i", "j", "k", "l", "m", "n", "o", "p", "q", "r",
     "s", "t", "u", "v", "w", "x", "y", "z", "0", "1", "2", "3", "4", "5", "6", "7", "8", "9",
     "-", "_", "/"}
CapitalChars ==
    {"A", "B", "C", "D", "E", "F", "G", "H", "I", "J", "K", "L", "M", "N", "O", "P", "Q", "R",
     "S", "T", "U", "V", "W", "X", "Y", "Z"}

\* The extension is .html, .htm, .php or .md in some case.
GenericExt == pcall.ext \in {<<".", "h", "t", "m", "l">>, <<".", "H", "T", "M">>, <<".", "p", "h", "p">>, <<".", "m", "d">>}

\* Every character of s is one of chars.
Only(s, chars) == \A i \in DOMAIN s : s[i] \in chars

\* C17 as stated: the generic convention returns a route only for a path
\* ending in .html, .htm, .php or .md whose captured portion holds only
\* lowercase letters, digits, hyphen, underscore and slash, and the route is
\* that portion verbatim, confidence low.
C17_LowercaseOnly ==
    (GenericDispatched /\ pcall.ret /= None) =>
        /\ GenericExt
        /\ Only(Tail(pcall.ret[1].urlPath), SlugChars)
        /\ EndsWith(Stem, pcall.ret[1].urlPath)
        /\ pcall.ret[1].confidence = "low"

\* C17, amended: the generic convention returns a route only for a path
\* ending in .html, .htm, .php or .md (any case) whose captured portion holds
\* only letters of either case, digits, hyphen, underscore and slash; the
\* route is that portion verbatim, confidence low, and is the whole path
\* before the extension when all of it is made of such characters.
C17_Generic ==
    /\ (GenericDispatched /\ pcall.ret /= None) =>
          /\ GenericExt
          /\ Only(Tail(pcall.ret[1].urlPath), SlugChars \cup CapitalChars)
          /\ pcall.ret[1].urlPath[1] = "/"
          /\ EndsWith(Stem, pcall.ret[1].urlPath)
          /\ pcall.ret[1].confidence = "low"
    /\ (GenericDispatched /\ GenericExt /\ Only(Stem, SlugChars \cup CapitalChars)) =>
          /\ pcall.ret /= None
          /\ pcall.ret[1].urlPath = Stem

\* C17 witness: resolve('/static/About.html') has returned '/static/About',
\* low.
C17_Witness ==
    /\ GenericDispatched
    /\ pcall.filePath = <<"/", "s", "t", "a", "t", "i", "c", "/", "A", "b", "o", "u", "t", ".", "h", "t", "m", "l">>
    /\ pcall.ret /= None
    /\ pcall.ret[1].urlPath = <<"/", "s", "t", "a", "t", "i", "c", "/", "A", "b", "o", "u", "t">>
    /\ pcall.ret[1].confidence = "low"


\* The path has the shape a convention asks for, read off the pieces it was
\* written from.
ScriptExt == pcall.ext \in {<<".", "t", "s", "x">>, <<".", "j", "s">>}
NextjsShape ==
    \/ pcall.dir = <<"/", "a", "p", "p", "/">> /\ pcall.file = <<"/", "p", "a", "g", "e">> /\ ScriptExt
    \/ pcall.dir = <<"/", "p", "a", "g", "e", "s", "/">> /\ ScriptExt
AstroShape == pcall.prefix = <<"/", "s", "r", "c">> /\ pcall.dir = <<"/", "p", "a", "g", "e", "s", "/">> /\ pcall.ext = <<".", "a", "s", "t", "r", "o">>
RemixShape == pcall.dir = <<"/", "r", "o", "u", "t", "e", "s", "/">> /\ ScriptExt
GenericShape ==
    /\ GenericExt
    /\ \E i \in 1..(Len(Stem) - 1) :
          Stem[i] = "/" /\ Only(SubSeq(Stem, i + 1, Len(Stem)), SlugChars \cup CapitalChars)

\* The shape of the convention resolve dispatched to, and the matchers of
\* that convention.
DispatchedShape ==
    CASE pcall.detectedFramework = "nextjs" -> NextjsShape
      [] pcall.detectedFramework = "astro" -> AstroShape
      [] pcall.detectedFramework = "remix" -> RemixShape
      [] OTHER -> GenericShape
DispatchedReasonings ==
    CASE pcall.detectedFramework = "nextjs" ->
            {"Next.js App Router pattern", "Next.js Pages Router pattern"}
      [] pcall.detectedFramework = "astro" -> {"Astro pages pattern"}
      [] pcall.detectedFramework = "remix" -> {"Remix routes pattern"}
      [] OTHER -> {"Generic path extraction"}

\* C18: every resolve call returns a route or absent; it returns absent
\* exactly when no pattern of the dispatched framework matches the path, and
\* a route it returns comes from a matcher of the dispatched framework, never
\* from another framework's.
C18_Unresolved ==
    Resolved =>
        /\ pcall.ret /= None =>
              /\ pcall.ret[1].urlPath[1] = "/"
              /\ pcall.ret[1].confidence \in {"high", "low"}
              /\ pcall.ret[1].reasoning \in DispatchedReasonings
        /\ pcall.ret = None <=> ~DispatchedShape

\* C18 witness: resolve('/weird/file.unknown') with no hint has returned
\* absent.
C18_Witness ==
    /\ Resolved
    /\ pcall.filePath = <<"/", "w", "e", "i", "r", "d", "/", "f", "i", "l", "e", ".", "u", "n", "k", "n", "o", "w", "n">>
    /\ pcall.framework = None
    /\ pcall.ret = None


\* The framework the stated precedence infers from the directories of the
\* path.
Inferred ==
    IF pcall.dir \in {<<"/", "a", "p", "p", "/">>, <<"/", "p", "a", "g", "e", "s", "/">>} THEN "nextjs"
    ELSE IF pcall.prefix = <<"/", "s", "r", "c">> /\ pcall.dir = <<"/", "p", "a", "g", "e", "s", "/">> THEN "astro"
    ELSE IF pcall.dir = <<"/", "r", "o", "u", "t", "e", "s", "/">> THEN "remix"
    ELSE "generic"

\* C19 as stated: with no hint the framework is inferred by the precedence
\* /app/ or /pages/, then /src/pages/, then /routes/, then generic; a supplied
\* hint always overrides the inference.
C19_HintOverrides ==
    Resolved =>
        pcall.detectedFramework =
            IF pcall.framework /= None THEN pcall.framework[1] ELSE Inferred

\* C19, amended: with no hint, or with the empty string as hint, the
\* framework is inferred by the precedence /app/ or /pages/, then
\* /src/pages/, then /routes/, then generic; a supplied non-empty hint always
\* overrides the inference.
C19_Framework ==
    Resolved =>
        pcall.detectedFramework =
            IF pcall.framework \notin {None, Some("")} THEN pcall.framework[1] ELSE Inferred

\* C19 witness: resolve of a path under /src/pages/ with the hint '' has
\* dispatched to nextjs.
C19_Witness ==
    /\ Resolved
    /\ pcall.framework = Some("")
    /\ pcall.prefix = <<"/", "s", "r", "c">>
    /\ pcall.dir = <<"/", "p", "a", "g", "e", "s", "/">>
    /\ pcall.detectedFramework = "nextjs"


\* The candidate with its trailing '/' stripped, or added when it has none.
SlashVariant(u) == IF u /= << >> /\ u[Len(u)] = "/" THEN SubSeq(u, 1, Len(u) - 1) ELSE u \o <<"/">>

\* The entries of the list that contain the candidate or are contained in it.
FuzzyHits(u, list) ==
    {i \in DOMAIN list :
        \/ \E a \in 0..Len(list[i]) : \E b \in 0..Len(list[i]) : SubSeq(list[i], a + 1, b) = u
        \/ \E a \in 0..Len(u) : \E b \in 0..Len(u) : SubSeq(u, a + 1, b) = list[i]}

\* C20: findMatch returns the candidate when the list holds it; otherwise its
\* trailing-slash variant when the list holds that; otherwise the first entry
\* in list order that contains the candidate or is contained in it; and
\* absent when no entry is.
C20_FindMatch ==
    (pcall.fn = "findMatch" /\ pcall.st = "returned") =>
        LET u == pcall.urlPath
            list == pcall.availableUrls
        IN  pcall.ret =
                IF \E i \in DOMAIN list : list[i] = u THEN Some(u)
                ELSE IF \E i \in DOMAIN list : list[i] = SlashVariant(u) THEN Some(SlashVariant(u))
                ELSE IF FuzzyHits(u, list) /= {}
                     THEN Some(list[CHOOSE i \in FuzzyHits(u, list) :
                                        \A j \in FuzzyHits(u, list) : i <= j])
                ELSE None


\* C21: every route resolve returns has a urlPath that starts with '/', and
\* its confidence is high when the Next.js, Astro or Remix convention was
\* dispatched and low when the generic fallback was.
C21_RouteShape ==
    (Resolved /\ pcall.ret /= None) =>
        /\ Len(pcall.ret[1].urlPath) >= 1
        /\ Head(pcall.ret[1].urlPath) = "/"
        /\ pcall.ret[1].confidence =
              IF pcall.detectedFramework \in {"nextjs", "astro", "remix"} THEN "high" ELSE "low"

\* C21 witness: resolve('/pages/blog.html', 'vue') has returned the generic
\* route '/pages/blog' with confidence low.
C21_Witness ==
    /\ Resolved
    /\ pcall.filePath = <<"/", "p", "a", "g", "e", "s", "/", "b", "l", "o", "g", ".", "h", "t", "m", "l">>
    /\ pcall.framework = Some("vue")
    /\ pcall.ret /= None
    /\ pcall.ret[1].urlPath = <<"/", "p", "a", "g", "e", "s", "/", "b", "l", "o", "g">>
    /\ pcall.ret[1].confidence = "low"


\* C22: with the default TTL configured as 0, a value stored without an
\* explicit TTL is never read back: a getOrSet on its key finds no value and
\* invokes its producer.
C22_ZeroTTLDisables ==
    [][ \A k \in Keys, ttl \in TTLArgs :
            (/\ defaultTTL = 0
             /\ written[k] /= None
             /\ written[k][1].ttl = None
             /\ getOrSet(k, ttl)) =>
                (last'.op = "getOrSet.await" /\ BagCardinality(pending') = BagCardinality(pending) + 1)
      ]_vars


\* C23: while a factory is outstanding, every synchronous operation of the
\* cache can run, the sweep can run when its timer is due, and a getOrSet on
\* a key with no factory outstanding can start: none of them waits for the
\* outstanding factory to settle.
C23_NoGlobalLock ==
    pending /= EmptyBag =>
        /\ \A k \in Keys : ENABLED get(k) /\ ENABLED has(k) /\ ENABLED delete(k)
        /\ \A k \in Keys, v \in Values, ttl \in TTLArgs : ENABLED set(k, v, ttl)
        /\ \A p \in Patterns : ENABLED deletePattern(p)
        /\ ENABLED clear
        /\ (sweepTimer = "armed" /\ now >= nextSweep) => ENABLED cleanup
        /\ \A k \in Keys, ttl \in TTLArgs :
              (InFlight(k) = 0 /\ BagCardinality(pending) < MaxCallers) =>
                  ENABLED getOrSet(k, ttl)

\* C23 witness: with a factory for one key still outstanding, a getOrSet on
\* the other key has started its own factory.
C23_Witness ==
    /\ last.op = "getOrSet.await"
    /\ BagCardinality(pending) = 2
    /\ \A k \in Keys : InFlight(k) = 1


\* C24: when set, delete, deletePattern or clear ran on a key while a
\* getOrSet call on it was awaiting its producer, and the producer then
\* succeeds with v, the store holds v for the key right after: the producer's
\* value is stored whatever the key held.
C24_ProducerOverwrites ==
    [][ \A call \in Calls, v \in Values :
            (call.key \in raced /\ factoryResolve(call, v)) =>
                /\ call.key \in DOMAIN store'
                /\ store'[call.key].value = v
                /\ last'.ret = v
      ]_vars

\* C24 witness: a getOrSet call on a key that was written or invalidated
\* while it was suspended has settled with "v1", and the store holds "v1".
C24_Witness ==
    /\ last.op = "getOrSet.resolved"
    /\ last.ret = "v1"
    /\ last.key[1] \in raced
    /\ last.key[1] \in DOMAIN store
    /\ store[last.key[1]].value = "v1"


\* No framework hint reached the dispatch: none was passed, or an empty one.
NoHint == pcall.framework \in {None, Some("")}

\* C25: with no framework hint, detection never selects astro; a path under
\* /src/pages/ is dispatched to the Next.js matcher, a .astro file there
\* resolves to absent, and a route of the Astro convention is returned only
\* under the explicit hint 'astro'.
C25_AstroNeverDetected ==
    Resolved =>
        /\ NoHint => pcall.detectedFramework /= "astro"
        /\ (NoHint /\ pcall.prefix = <<"/", "s", "r", "c">> /\ pcall.dir = <<"/", "p", "a", "g", "e", "s", "/">>) =>
              /\ pcall.detectedFramework = "nextjs"
              /\ pcall.ext = <<".", "a", "s", "t", "r", "o">> => pcall.ret = None
        /\ MatchedBy("Astro pages pattern") => pcall.framework = Some("astro")

\* C25 witness: resolve('/src/pages/blog/[slug].astro') with no hint has
\* dispatched to nextjs and returned absent.
C25_Witness ==
    /\ Resolved
    /\ pcall.framework = None
    /\ pcall.filePath = <<"/", "s", "r", "c", "/", "p", "a", "g", "e", "s", "/", "b", "l", "o", "g", "/", "[", "s", "l", "u", "g", "]", ".", "a", "s", "t", "r", "o">>
    /\ pcall.detectedFramework = "nextjs"
    /\ pcall.ret = None

\* A request the dispatcher has answered.
Answered == pcall.fn = "callTool" /\ pcall.st = "returned"

\* The answer is an McpError with the given code.
FailedWith(code) ==
    pcall.response /= None /\ pcall.response[1].kind = "McpError"
        /\ pcall.response[1].code = code

\* C26: tool dispatch error handling. A call naming a tool that is not
\* registered fails with MethodNotFound and no handler runs. For a registered
\* tool the handler runs only after the arguments passed validation; a
\* validation failure or a handler exception is reported as an InternalError;
\* a handler result, one carrying 'error' included, is returned as a
\* successful text response.
C26_Dispatch ==
    Answered =>
        /\ pcall.name \notin RegisteredTools =>
              FailedWith("MethodNotFound") /\ ~pcall.handlerRan
        /\ pcall.name \in RegisteredTools =>
              /\ pcall.handlerRan => (pcall.validated /\ SchemaAccepts(pcall.args))
              /\ ~SchemaAccepts(pcall.args) =>
                    FailedWith("InternalError") /\ ~pcall.handlerRan
              /\ (pcall.outcome /= None /\ pcall.outcome[1].kind = "threw") =>
                    FailedWith("InternalError")
              /\ (pcall.outcome /= None /\ pcall.outcome[1].kind = "returned") =>
                    /\ pcall.response = Some(TextResponse(pcall.outcome[1].value))
                    /\ pcall.response[1].content[1].type = "text"

\* A call of detectGSCDataState that has returned.
Detected == pcall.fn = "detectGSCDataState" /\ pcall.st = "returned"

\* The count is a number above zero.
Positive(x) == x \in {JsNumber(n) : n \in 1..2}

\* The field holds no timestamp: it is absent, null or empty.
Missing(x) == x \in {Undefined, JsNull, JsString("")}

\* C27: detectGSCDataState decides by fixed precedence and returns exactly
\* one state: has_data exactly when impressions or clicks are above zero;
\* otherwise no_gsc_data when gsc_analytics_last_updated is missing (absent,
\* null or empty); otherwise not_indexed when the coverage state is not
\* 'Submitted and indexed' or the indexing state is
\* 'INDEXING_STATE_NOT_IN_INDEX'; otherwise indexed_no_impressions. hasData is
\* true only for has_data, and the reason is never 'gsc_not_synced'.
C27_Precedence ==
    Detected =>
        LET r == pcall.ret[1]
            u == pcall.url
        IN  /\ r.reason =
                 IF Positive(pcall.impressions) \/ Positive(pcall.clicks)
                 THEN "has_data"
                 ELSE IF Missing(u.gsc_analytics_last_updated)
                 THEN "no_gsc_data"
                 ELSE IF \/ u.current_gsc_coverage_state /= JsString("Submitted and indexed")
                         \/ u.current_gsc_indexing_state = JsString("INDEXING_STATE_NOT_IN_INDEX")
                 THEN "not_indexed"
                 ELSE "indexed_no_impressions"
            /\ r.hasData = (r.reason = "has_data")
            /\ r.reason /= "gsc_not_synced"

\* detectGSCDataState has returned not_indexed, with hasData false, for a
\* synced page with no impressions and no clicks whose coverage state is not
\* the indexed one.
C27_Witness ==
    /\ Detected
    /\ pcall.impressions = JsNumber(0)
    /\ pcall.clicks = JsNumber(0)
    /\ pcall.url.gsc_analytics_last_updated = JsString("2025-01-01T00:00:00Z")
    /\ pcall.url.current_gsc_coverage_state = JsString("Crawled - currently not indexed")
    /\ pcall.ret[1].reason = "not_indexed"
    /\ ~pcall.ret[1].hasData

====
